---- MODULE Spec2Model ----
(***************************************************************************)
(* Model of src/aac_script.py: a linear script that pulls shelter outcome  *)
(* records page by page, keeps the dog records with a parseable timestamp, *)
(* counts them by month and outcome type, derives a raw and a              *)
(* baseline-adjusted euthanasia rate, and writes dog_outcomes.xlsx.        *)
(*                                                                         *)
(* Abstractions.  A timestamp is kept at month resolution, <<year,month>>  *)
(* (the script only ever uses its month and year), and an unparseable one  *)
(* is <<0, 0>>.  A month label       'MM-YY' is the pair <<MM, YY>>.     *)
(* A float is an exact rational [n, d], or NaN, or Inf.                    *)
(***************************************************************************)
EXTENDS Integers, Sequences, FiniteSets, TLC

\* Bounds of the model.  limit is the page size (50000 at line 10 of the
\* script), scaled down so that a few records span several pages.
MaxRecords == 6
limit == 2

VARIABLES
  dataset,          \* the server's ordered result set (fixed during a run)
  file,             \* dog_outcomes.xlsx on disk
  pc,               \* the step of the script that runs next
  err,              \* the exception that ended the run, or "none"
  offset,           \* line 11
  rows,             \* line 12
  log,              \* the requests issued so far, with their responses
  df,               \* the DataFrame df
  monthly,          \* the DataFrame monthly
  baseline_intake,  \* line 55
  wb,               \* the workbook in memory (lines 66-105)
  twin,             \* input of a second, independent run (SpecPair only)
  twinMonthly       \* the table monthly of that second run

vars == <<dataset, file, pc, err, offset, rows, log, df, monthly,
          baseline_intake, wb, twin, twinMonthly>>

----
\* Values

\* A float is n/d in lowest terms; 0/0 is NaN and 1/0 is inf.
NaN == [n |-> 0, d |-> 0]
Inf == [n |-> 1, d |-> 0]
\* A timestamp is <<year, month>>; NaT is the missing one, and BadDatetime
\* stands for the strings to_datetime cannot parse.
NaT == <<>>
BadDatetime == <<0, 0>>
\* A variable the script has not assigned yet
None == [unset |-> TRUE]

Four == <<"Adoption", "Transfer", "Euthanasia", "Return to Owner">>

Range(s) == {s[i] : i \in DOMAIN s}

Min(a, b) == IF a <= b THEN a ELSE b

RECURSIVE SumSeq(_)
SumSeq(s) == IF s = <<>> THEN 0 ELSE s[1] + SumSeq(Tail(s))

RECURSIVE Gcd(_, _)
Gcd(a, b) == IF b = 0 THEN a ELSE Gcd(b, a % b)

\* The rational n/d (d > 0, n >= 0) in lowest terms.
Rat(n, d) == LET g == Gcd(n, d) IN [n |-> n \div g, d |-> d \div g]

IsRat(x) == x.d # 0

\* a <= b for rationals
RatLeq(a, b) == a.n * b.d <= b.n * a.d

\* pandas: int64 / int64 gives float64; x/0 is inf for x > 0 and NaN for x = 0
IntDiv(a, b) ==
  IF b = 0 THEN (IF a = 0 THEN NaN ELSE Inf) ELSE Rat(a, b)

\* float / float, for a >= 0 an integer count and b a float
DivByFloat(a, b) ==
  IF b = NaN THEN NaN
  ELSE IF b = Inf THEN Rat(0, 1)
  ELSE IF b.n = 0 THEN (IF a = 0 THEN NaN ELSE Inf)
  ELSE Rat(a * b.d, b.n)

\* x * k for a float x and an integer k > 0
Times(x, k) == IF IsRat(x) THEN Rat(x.n * k, x.d) ELSE x

----
\* The server: records and pages

\* The kinds of record the server may hold, in "datetime ASC" order.
Kinds == <<
  [datetime |-> BadDatetime,  animal_type |-> "Dog", outcome_type |-> "Euthanasia"],
  [datetime |-> <<1968, 12>>, animal_type |-> "Dog", outcome_type |-> "Died"],
  [datetime |-> <<2020, 2>>,  animal_type |-> "Dog", outcome_type |-> "Adoption"],
  [datetime |-> <<2020, 2>>,  animal_type |-> "Dog", outcome_type |-> "Euthanasia"],
  [datetime |-> <<2020, 2>>,  animal_type |-> "Dog", outcome_type |-> "Died"],
  [datetime |-> <<2020, 2>>,  animal_type |-> "Cat", outcome_type |-> "Euthanasia"],
  [datetime |-> <<2020, 3>>,  animal_type |-> "Dog", outcome_type |-> "Adoption"],
  [datetime |-> <<2020, 3>>,  animal_type |-> "Dog", outcome_type |-> "Transfer"],
  [datetime |-> <<2020, 3>>,  animal_type |-> "Dog", outcome_type |-> "Euthanasia"],
  [datetime |-> <<2020, 3>>,  animal_type |-> "DOG", outcome_type |-> "Euthanasia"],
  [datetime |-> <<2020, 3>>,  animal_type |-> "Dog", outcome_type |-> "Return to Owner"],
  [datetime |-> <<2020, 3>>,  animal_type |-> "Dog", outcome_type |-> "Died"] >>

\* The nondecreasing sequences over 1..Len(Kinds) of length at most n.
RECURSIVE SortedSeqs(_)
SortedSeqs(n) ==
  IF n = 0 THEN {<<>>}
  ELSE LET S == SortedSeqs(n - 1)
       IN  S \cup {Append(s, i) :
                     <<s, i>> \in {p \in S \X (1..Len(Kinds)) :
                                     /\ Len(p[1]) = n - 1
                                     /\ p[1] # <<>> => p[1][n - 1] <= p[2]}}

\* A result set: every record has its own identity (its position).
MkDataset(ks) ==
  [i \in 1..Len(ks) |->
     [id |-> i, datetime |-> Kinds[ks[i]].datetime,
      animal_type |-> Kinds[ks[i]].animal_type,
      outcome_type |-> Kinds[ks[i]].outcome_type]]

\* n dog records of one month and outcome, with ids from first on
Dogs(first, n, date, outcome) ==
  [i \in 1..n |-> [id |-> first + i - 1, datetime |-> date,
                   animal_type |-> "Dog", outcome_type |-> outcome]]

\* Jan: 10 adoptions; Feb: 8 adoptions, 2 euthanasia; Mar: 5 and 5.
ScenarioThreeMonths ==
  Dogs(1, 10, <<2020, 1>>, "Adoption")
    \o Dogs(11, 8, <<2020, 2>>, "Adoption")
    \o Dogs(19, 2, <<2020, 2>>, "Euthanasia")
    \o Dogs(21, 5, <<2020, 3>>, "Adoption")
    \o Dogs(26, 5, <<2020, 3>>, "Euthanasia")

Datasets == {MkDataset(ks) : ks \in SortedSeqs(MaxRecords)} \cup {ScenarioThreeMonths}

\* The server's answer to $limit = lim, $offset = off.
Page(data, off, lim) ==
  IF off >= Len(data) THEN <<>>
  ELSE SubSeq(data, off + 1, Min(off + lim, Len(data)))

\* dog_outcomes.xlsx before the run: absent, or left by an earlier run.
Absent == [state |-> "absent"]
PriorFile == [state |-> "prior"]

\* pd.DataFrame(rows) of a list of dicts: no columns when the list is empty
DataFrame(rs) ==
  [columns |-> IF rs = <<>> THEN {} ELSE {"datetime", "animal_type", "outcome_type"},
   rows |-> rs]

----
\* Step 1: the pagination loop (lines 14-29)

Init ==
  /\ dataset \in Datasets
  /\ file \in {Absent, PriorFile}
  /\ pc = "fetch"
  /\ err = "none"
  /\ offset = 0
  /\ rows = <<>>
  /\ log = <<>>
  /\ df = None
  /\ monthly = None
  /\ baseline_intake = None
  /\ wb = None
  /\ twin = None
  /\ twinMonthly = None

Request(status, batch) ==
  [limit |-> limit, offset |-> offset, status |-> status, n |-> Len(batch)]

\* A changed NextOffset: the offset advances by one record too many.
NextOffsetSkip(off) == off + limit + 1

\* offset += limit (line 27)
NextOffset(off) == off + limit

\* A changed Extend: the batch replaces the list.
ExtendReplace(rs, batch) == batch

\* rows.extend(batch) (line 26)
Extend(rs, batch) == rs \o batch

\* A request is answered with a non-empty page (lines 21-27).
FetchPage ==
  /\ pc = "fetch"
  /\ LET batch == Page(dataset, offset, limit)
     IN  /\ batch # <<>>
         /\ log' = Append(log, Request("ok", batch))
         /\ rows' = Extend(rows, batch)
         /\ offset' = NextOffset(offset)
  /\ UNCHANGED <<dataset, file, pc, err, df, monthly, baseline_intake, wb,
                 twin, twinMonthly>>

\* A request is answered with an empty page: break, then line 29.
FetchEmpty ==
  /\ pc = "fetch"
  /\ LET batch == Page(dataset, offset, limit)
     IN  /\ batch = <<>>
         /\ log' = Append(log, Request("ok", batch))
  /\ df' = DataFrame(rows)
  /\ pc' = "step2"
  /\ UNCHANGED <<dataset, file, err, offset, rows, monthly, baseline_intake, wb,
                 twin, twinMonthly>>

\* A changed FetchHTTPError: the status is not checked, the body of the
\* error response holds no records, and the loop ends as on an empty page.
FetchHTTPErrorIgnored ==
  /\ pc = "fetch"
  /\ log' = Append(log, Request("error", <<>>))
  /\ df' = DataFrame(rows)
  /\ pc' = "step2"
  /\ UNCHANGED <<dataset, file, err, offset, rows, monthly, baseline_intake, wb,
                 twin, twinMonthly>>

\* A request is answered with a non-success status: raise_for_status (line 22)
\* raises, nothing catches it, the script ends.
FetchHTTPError ==
  /\ pc = "fetch"
  /\ log' = Append(log, Request("error", <<>>))
  /\ err' = "HTTPError"
  /\ pc' = "aborted"
  /\ UNCHANGED <<dataset, file, offset, rows, df, monthly, baseline_intake, wb,
                 twin, twinMonthly>>

----
\* Steps 2-4: parse the timestamp, keep the dogs, label the month (lines 32-39)

\* pd.to_datetime(..., errors='coerce'): an unparseable value becomes NaT
ToDatetime(s) == IF s = BadDatetime THEN NaT ELSE s

\* str.lower() on the animal types that occur
Lower(s) ==
  CASE s = "Dog" -> "dog"
    [] s = "DOG" -> "dog"
    [] s = "Cat" -> "cat"
    [] OTHER -> s

\* strftime('%m-%y'): the month and the last two digits of the year
Strftime(date) == <<date[2], date[1] % 100>>

\* strptime with '%m-%y': 00..68 is 2000..2068, 69..99 is 1969..1999; the
\* result is the first day of that month
Strptime(label) ==
  <<(IF label[2] <= 68 THEN 2000 + label[2] ELSE 1900 + label[2]), label[1]>>

WithDate(r) ==
  [id |-> r.id, datetime |-> r.datetime, animal_type |-> r.animal_type,
   outcome_type |-> r.outcome_type, date |-> ToDatetime(r.datetime)]

HasDate(r) == r.date # NaT

\* lines 32-33
ParseDates(d) ==
  [columns |-> d.columns \cup {"date"},
   rows |-> SelectSeq([i \in DOMAIN d.rows |-> WithDate(d.rows[i])], HasDate)]

IsDog(r) == Lower(r.animal_type) = "dog"

\* line 36
FilterDogs(d) == [columns |-> d.columns, rows |-> SelectSeq(d.rows, IsDog)]

WithMonthYear(r) ==
  [id |-> r.id, datetime |-> r.datetime, animal_type |-> r.animal_type,
   outcome_type |-> r.outcome_type, date |-> r.date,
   MonthYear |-> Strftime(r.date)]

\* line 39
AddMonthYear(d) ==
  [columns |-> d.columns \cup {"MonthYear"},
   rows |-> [i \in DOMAIN d.rows |-> WithMonthYear(d.rows[i])]]

Step2 ==
  /\ pc = "step2"
  /\ \/ /\ "datetime" \in df.columns
        /\ df' = ParseDates(df)
        /\ pc' = "step3"
        /\ err' = err
     \/ /\ "datetime" \notin df.columns      \* df['datetime'] raises
        /\ err' = "KeyError"
        /\ pc' = "aborted"
        /\ df' = df
  /\ UNCHANGED <<dataset, file, offset, rows, log, monthly, baseline_intake, wb,
                 twin, twinMonthly>>

Step3 ==
  /\ pc = "step3"
  /\ df' = FilterDogs(df)
  /\ pc' = "step4"
  /\ UNCHANGED <<dataset, file, err, offset, rows, log, monthly,
                 baseline_intake, wb, twin, twinMonthly>>

Step4 ==
  /\ pc = "step4"
  /\ df' = AddMonthYear(df)
  /\ pc' = "step5"
  /\ UNCHANGED <<dataset, file, err, offset, rows, log, monthly,
                 baseline_intake, wb, twin, twinMonthly>>

----
\* Steps 5-6: the monthly table (lines 42-48)

\* The order of a set of indices by an integer key (ties by index).
RECURSIVE Order(_, _)
Order(idx, key) ==
  IF idx = {} THEN <<>>
  ELSE LET m == CHOOSE i \in idx :
                  \A j \in idx : key[i] < key[j] \/ (key[i] = key[j] /\ i <= j)
       IN  <<m>> \o Order(idx \ {m}, key)

\* A sequence sorted by an integer key of its elements.
Sorted(s, key) ==
  LET o == Order(DOMAIN s, key) IN [i \in DOMAIN s |-> s[o[i]]]

\* A set as a sequence, in the order of an integer key that is one-to-one.
RECURSIVE SetToSeq(_, _)
SetToSeq(S, key) ==
  IF S = {} THEN <<>>
  ELSE LET m == CHOOSE x \in S : \A y \in S : key[x] <= key[y]
       IN  <<m>> \o SetToSeq(S \ {m}, key)

\* The order of the label strings 'MM-YY': by month, then by two-digit year.
LabelKey(label) == label[1] * 100 + label[2]

\* The order of dates.
DateKey(date) == date[1] * 12 + date[2]

Count(d, label, outcome) ==
  Cardinality({i \in DOMAIN d.rows :
                 /\ d.rows[i].MonthYear = label
                 /\ d.rows[i].outcome_type = outcome})

\* groupby(['MonthYear','outcome_type']).size().unstack(fill_value=0): a row
\* per label that occurs, in the order of the labels, and a column per
\* outcome type that occurs
Unstack(d) ==
  LET labels == {d.rows[i].MonthYear : i \in DOMAIN d.rows}
      types  == {d.rows[i].outcome_type : i \in DOMAIN d.rows}
      index  == SetToSeq(labels, [l \in labels |-> LabelKey(l)])
  IN  [columns |-> types,
       rows |-> [i \in DOMAIN index |->
                   [c \in types \cup {"MonthYear"} |->
                      IF c = "MonthYear" THEN index[i]
                      ELSE Count(d, index[i], c)]]]

\* monthly[[...]] raises KeyError when a listed column is missing
CanSelect(t, cols) == Range(cols) \subseteq t.columns

\* monthly[['Adoption','Transfer','Euthanasia','Return to Owner']]
SelectColumns(t, cols) ==
  [columns |-> cols,
   rows |-> [i \in DOMAIN t.rows |->
               [c \in Range(cols) \cup {"MonthYear"} |-> t.rows[i][c]]]]

\* lines 46-48: the rows in the order of the date parsed back from the label
\* (the labels of a table differ, so do their dates: no ties)
SortByDate(t) ==
  LET rs == [i \in DOMAIN t.rows |->
               t.rows[i] @@ ("SortDate" :> Strptime(t.rows[i]["MonthYear"]))]
  IN  [columns |-> Append(t.columns, "SortDate"),
       rows |-> Sorted(rs, [i \in DOMAIN rs |-> DateKey(rs[i]["SortDate"])])]

Step5 ==
  /\ pc = "step5"
  /\ LET t == Unstack(df)
     IN  \/ /\ CanSelect(t, Four)
            /\ monthly' = SelectColumns(t, Four)
            /\ pc' = "step6"
            /\ err' = err
         \/ /\ ~CanSelect(t, Four)
            /\ err' = "KeyError"
            /\ pc' = "aborted"
            /\ monthly' = monthly
  /\ UNCHANGED <<dataset, file, offset, rows, log, df, baseline_intake, wb,
                 twin, twinMonthly>>

Step6 ==
  /\ pc = "step6"
  /\ monthly' = SortByDate(monthly)
  /\ pc' = "step7"
  /\ UNCHANGED <<dataset, file, err, offset, rows, log, df, baseline_intake, wb,
                 twin, twinMonthly>>

----
\* Steps 7-9: totals, rates, baseline (lines 51-58)

\* The dtype of a column of monthly
Dtype(c) ==
  CASE c \in Range(Four) \cup {"Total"} -> "int64"
    [] c = "SortDate" -> "datetime64[ns]"
    [] c \in {"EuthRate", "AdjEuthRate"} -> "float64"
    [] OTHER -> "object"

IsNumber(c) == Dtype(c) \in {"int64", "float64"}

\* select_dtypes(include='number')
NumberColumns(t) == SelectSeq(t.columns, IsNumber)

\* .sum(axis=1) of one row over the given columns
RowSum(r, cols) == SumSeq([i \in DOMAIN cols |-> r[cols[i]]])

\* monthly[name] = values, one value per row
AddColumn(t, name, values) ==
  [columns |-> Append(t.columns, name),
   rows |-> [i \in DOMAIN t.rows |-> t.rows[i] @@ (name :> values[i])]]

\* A changed TotalOf: the last number column is left out of the sum.
TotalOfShort(t, r) ==
  RowSum(r, SubSeq(NumberColumns(t), 1, Len(NumberColumns(t)) - 1))

\* line 51
TotalOf(t, r) == RowSum(r, NumberColumns(t))

\* A changed EuthRateOf: the rate is taken against the adoptions.
EuthRateOfAdoptions(r) == Times(IntDiv(r["Euthanasia"], r["Adoption"]), 100)

\* line 52
EuthRateOf(r) == Times(IntDiv(r["Euthanasia"], r["Total"]), 100)

AddTotals(t) ==
  LET t1 == AddColumn(t, "Total", [i \in DOMAIN t.rows |-> TotalOf(t, t.rows[i])])
  IN  AddColumn(t1, "EuthRate", [i \in DOMAIN t1.rows |-> EuthRateOf(t1.rows[i])])

Cutoff == <<2020, 3>>

\* monthly['SortDate'] < "2020-03-01"
BeforeCutoff(r) == DateKey(r["SortDate"]) < DateKey(Cutoff)

\* line 55: the mean of an empty selection is NaN
BaselineIntake(t) ==
  LET sel == SelectSeq(t.rows, BeforeCutoff)
  IN  IF sel = <<>> THEN NaN
      ELSE Rat(SumSeq([i \in DOMAIN sel |-> sel[i]["Total"]]), Len(sel))

\* A changed AdjEuthRateOf: the rate is taken against the row's own total.
AdjEuthRateOfOwnTotal(r, baseline) ==
  Times(IntDiv(r["Euthanasia"], r["Total"]), 100)

\* line 58
AdjEuthRateOf(r, baseline) == Times(DivByFloat(r["Euthanasia"], baseline), 100)

AddAdjRate(t, baseline) ==
  AddColumn(t, "AdjEuthRate",
            [i \in DOMAIN t.rows |-> AdjEuthRateOf(t.rows[i], baseline)])

Step7 ==
  /\ pc = "step7"
  /\ monthly' = AddTotals(monthly)
  /\ pc' = "step8"
  /\ UNCHANGED <<dataset, file, err, offset, rows, log, df, baseline_intake, wb,
                 twin, twinMonthly>>

Step8 ==
  /\ pc = "step8"
  /\ baseline_intake' = BaselineIntake(monthly)
  /\ pc' = "step9"
  /\ UNCHANGED <<dataset, file, err, offset, rows, log, df, monthly, wb,
                 twin, twinMonthly>>

Step9 ==
  /\ pc = "step9"
  /\ monthly' = AddAdjRate(monthly, baseline_intake)
  /\ pc' = "step10"
  /\ UNCHANGED <<dataset, file, err, offset, rows, log, df, baseline_intake, wb,
                 twin, twinMonthly>>

----
\* Steps 10-13: the workbook (lines 61-108)

\* A cell that to_excel leaves empty
EmptyCell == [empty |-> TRUE]

\* to_excel writes a NaN as an empty cell
ExcelCell(c, v) == IF Dtype(c) = "float64" /\ v = NaN THEN EmptyCell ELSE v

\* monthly.to_excel(writer, sheet_name="Dog outcomes raw"): the index, then
\* every column
RawSheet(t) ==
  LET cols == <<"MonthYear">> \o t.columns
  IN  [title |-> "Dog outcomes raw",
       header |-> cols,
       rows |-> [i \in DOMAIN t.rows |->
                   [j \in DOMAIN cols |-> ExcelCell(cols[j], t.rows[i][cols[j]])]]]

\* round(x, 2): to the nearest hundredth, a tie to the even one (a tie of
\* the exact quotient; no double within the bounds sits on one); inf stays
Round2(x) ==
  IF ~IsRat(x) THEN x
  ELSE LET q == (x.n * 100) \div x.d
           r == (x.n * 100) % x.d
           k == IF 2 * r < x.d THEN q
                ELSE IF 2 * r > x.d THEN q + 1
                ELSE IF q % 2 = 0 THEN q ELSE q + 1
       IN  Rat(k, 100)

\* pd.notna
NotNa(x) == x # NaN

\* A changed Shown: the value is rounded without the pd.notna test.
ShownUnchecked(x) == Round2(x)

\* round(v, 2) if pd.notna(v) else 0
Shown(x) == IF NotNa(x) THEN Round2(x) ELSE Rat(0, 1)

\* lines 71-76: one row of the second sheet; its numbers are kept as n/d
AdjRow(r) ==
  <<r["MonthYear"], Rat(r["Total"], 1), Shown(r["EuthRate"]), Shown(r["AdjEuthRate"])>>

\* lines 67-76
AdjSheet(t) ==
  [title |-> "Adj Euthanasia Rate",
   header |-> <<"Month", "Total Intake", "Actual Euthanasia Rate %",
                "Adjusted Euthanasia Rate %">>,
   rows |-> [i \in DOMAIN t.rows |-> AdjRow(t.rows[i])]]

\* ws.max_row: the header and the rows
MaxRow(ws) == 1 + Len(ws.rows)

\* lines 79-105: the bar chart of column 2 with the line chart of columns
\* 3-4 laid over it, both with the categories of column 1
Chart(ws) ==
  [anchor |-> "G5",
   bar |-> [min_col |-> 2, max_col |-> 2, min_row |-> 1, max_row |-> MaxRow(ws)],
   line |-> [min_col |-> 3, max_col |-> 4, min_row |-> 1, max_row |-> MaxRow(ws)],
   cats |-> [min_col |-> 1, max_col |-> 1, min_row |-> 2, max_row |-> MaxRow(ws)],
   line_y_min |-> 0, line_y_max |-> 10]

\* lines 61-63: the file is written anew, whatever was there
Step10 ==
  /\ pc = "step10"
  /\ file' = [state |-> "written", sheets |-> <<RawSheet(monthly)>>, charts |-> <<>>]
  /\ pc' = "step11"
  /\ UNCHANGED <<dataset, err, offset, rows, log, df, monthly, baseline_intake,
                 wb, twin, twinMonthly>>

\* lines 66-76: the file is read back and the second sheet added in memory
Step11 ==
  /\ pc = "step11"
  /\ wb' = [file EXCEPT !.sheets = Append(@, AdjSheet(monthly))]
  /\ pc' = "step12"
  /\ UNCHANGED <<dataset, file, err, offset, rows, log, df, monthly,
                 baseline_intake, twin, twinMonthly>>

Step12 ==
  /\ pc = "step12"
  /\ wb' = [wb EXCEPT !.charts = Append(@, Chart(wb.sheets[2]))]
  /\ pc' = "step13"
  /\ UNCHANGED <<dataset, file, err, offset, rows, log, df, monthly,
                 baseline_intake, twin, twinMonthly>>

\* line 108
Step13 ==
  /\ pc = "step13"
  /\ file' = wb
  /\ pc' = "done"
  /\ UNCHANGED <<dataset, err, offset, rows, log, df, monthly, baseline_intake,
                 wb, twin, twinMonthly>>

----
\* A second run of the script, on the input twin: lines 14-58 at once.

KeyErrorRaised == [error |-> "KeyError"]

Monthly(data) ==
  LET d0 == DataFrame(data)
  IN  IF "datetime" \notin d0.columns THEN KeyErrorRaised
      ELSE LET t == Unstack(AddMonthYear(FilterDogs(ParseDates(d0))))
           IN  IF ~CanSelect(t, Four) THEN KeyErrorRaised
               ELSE LET m == AddTotals(SortByDate(SelectColumns(t, Four)))
                    IN  AddAdjRate(m, BaselineIntake(m))

TwinRun ==
  /\ pc = "done"
  /\ twinMonthly = None
  /\ twinMonthly' = Monthly(twin)
  /\ UNCHANGED <<dataset, file, pc, err, offset, rows, log, df, monthly,
                 baseline_intake, wb, twin>>

\* The datasets of the two-run specification.
MaxPairRecords == 5

\* data with one more record, placed by its timestamp
Insert(data, r) ==
  LET k == Cardinality({i \in DOMAIN data :
                          DateKey(data[i].datetime) <= DateKey(r.datetime)})
  IN  SubSeq(data, 1, k) \o <<r>> \o SubSeq(data, k + 1, Len(data))

\* The inputs that differ from data by one more dog record of one month
\* that is not a euthanasia.
Twins(data) ==
  {Insert(data, [id |-> Len(data) + 1, datetime |-> date,
                 animal_type |-> "Dog", outcome_type |-> outcome]) :
     <<date, outcome>> \in
        {<<2020, 2>>, <<2020, 3>>} \X {"Adoption", "Transfer", "Return to Owner"}}

InitPair ==
  /\ dataset \in {MkDataset(ks) : ks \in SortedSeqs(MaxPairRecords)}
  /\ twin \in Twins(dataset)
  /\ file = Absent
  /\ pc = "fetch"
  /\ err = "none"
  /\ offset = 0
  /\ rows = <<>>
  /\ log = <<>>
  /\ df = None
  /\ monthly = None
  /\ baseline_intake = None
  /\ wb = None
  /\ twinMonthly = None

Next ==
  \/ FetchPage
  \/ FetchEmpty
  \/ FetchHTTPError
  \/ Step2
  \/ Step3
  \/ Step4
  \/ Step5
  \/ Step6
  \/ Step7
  \/ Step8
  \/ Step9
  \/ Step10
  \/ Step11
  \/ Step12
  \/ Step13

Spec == Init /\ [][Next]_vars

NextPair == Next \/ TwinRun

SpecPair == InitPair /\ [][NextPair]_vars

----
\* Properties

Steps == <<"fetch", "step2", "step3", "step4", "step5", "step6", "step7",
           "step8", "step9", "step10", "step11", "step12", "step13", "done">>

\* The values of pc at which step p has run.
Past(p) ==
  LET k == CHOOSE i \in DOMAIN Steps : Steps[i] = p
  IN  {Steps[j] : j \in (k + 1)..Len(Steps)}

\* The loop of lines 14-27 was left by its break.
LoopEnded == pc \in Past("fetch") \/ err = "KeyError"

\* Some request was answered with a non-success status.
HttpFailed == \E k \in DOMAIN log : log[k].status = "error"

Ceil(n, d) == (n + d - 1) \div d

\* C1: the k-th request carries offset (k-1)*limit and limit limit; every
\* request but the last returned a non-empty page, so none follows an empty
\* page; and once the loop has ended there were exactly
\* ceil(N/limit) + 1 requests, the last one answered with an empty page.
C1_Pagination ==
  /\ \A k \in DOMAIN log :
       /\ log[k].offset = (k - 1) * limit
       /\ log[k].limit = limit
  /\ \A k \in DOMAIN log :
       (k < Len(log) \/ pc = "fetch") => log[k].status = "ok" /\ log[k].n > 0
  /\ LoopEnded =>
       /\ Len(log) = Ceil(Len(dataset), limit) + 1
       /\ \A k \in DOMAIN log : log[k].status = "ok"
       /\ log[Len(log)].n = 0

\* Five records in pages of two: three pages, the last one partial, and the
\* empty one.
C1_Witness ==
  /\ pc = "step2"
  /\ Len(dataset) = 2 * limit + 1
  /\ Len(log) = 4
  /\ log[3].n = 1

\* The pages the server returned to the requests of l, in request order.
RECURSIVE ConcatPages(_)
ConcatPages(l) ==
  IF l = <<>> THEN <<>>
  ELSE LET last == l[Len(l)]
       IN  ConcatPages(SubSeq(l, 1, Len(l) - 1))
             \o (IF last.status = "ok"
                 THEN Page(dataset, last.offset, last.limit) ELSE <<>>)

\* C2: rows is the concatenation of the pages in request order, it holds no
\* record twice, and once the loop has ended it is the server's dataset.
C2_Concatenation ==
  /\ rows = ConcatPages(log)
  /\ \A i, j \in DOMAIN rows : i # j => rows[i].id # rows[j].id
  /\ LoopEnded => rows = dataset

C2_Witness ==
  /\ pc = "step2"
  /\ Len(log) >= 4
  /\ Len(rows) > 2 * limit
  /\ rows = dataset

\* C3: a non-success response ends the run at that request: it is the last
\* request, the run is aborted with the HTTP error, df, monthly and the
\* workbook were never built, and the file on disk is as it was before the
\* run; no step follows an error, and the file is written only by a run
\* without one.
C3_AbortOnHTTPError ==
  /\ [](HttpFailed =>
          /\ pc = "aborted"
          /\ err = "HTTPError"
          /\ \A k \in DOMAIN log : log[k].status = "error" <=> k = Len(log)
          /\ df = None /\ monthly = None /\ wb = None
          /\ file \in {Absent, PriorFile})
  /\ [][~HttpFailed /\ err = "none"]_vars
  /\ []((pc = "aborted" <=> err # "none")
          /\ (err # "none" => file \in {Absent, PriorFile}))

\* The third request fails after two pages were fetched, a file being there.
C3_Witness ==
  /\ HttpFailed
  /\ Len(log) = 3
  /\ Len(rows) = 2 * limit
  /\ file = PriorFile

\* C4: on the three-month scenario the run goes through, and the table has
\* three rows, Jan, Feb, Mar, with Total 10, 10, 10 and raw rate 0, 20, 50,
\* the outcome types that do not occur counting as zero.
C4_ThreeMonthScenario ==
  (dataset = ScenarioThreeMonths /\ LoopEnded) =>
     /\ err = "none"
     /\ pc \in Past("step7") =>
          /\ Len(monthly.rows) = 3
          /\ \A i \in 1..3 :
               /\ monthly.rows[i]["MonthYear"] = <<i, 20>>
               /\ monthly.rows[i]["Total"] = 10
               /\ monthly.rows[i]["Transfer"] = 0
               /\ monthly.rows[i]["Return to Owner"] = 0
          /\ monthly.rows[1]["EuthRate"] = Rat(0, 1)
          /\ monthly.rows[2]["EuthRate"] = Rat(20, 1)
          /\ monthly.rows[3]["EuthRate"] = Rat(50, 1)

\* C5: when the first request returns an empty page the run completes: the
\* table has no rows, the second sheet only its header, the file is written.
C5_EmptyFirstPage ==
  (log # <<>> /\ log[1].status = "ok" /\ log[1].n = 0) =>
     /\ err = "none"
     /\ pc \in Past("step5") => monthly.rows = <<>>
     /\ pc = "done" =>
          /\ file.state = "written"
          /\ Len(file.sheets) = 2
          /\ file.sheets[2].rows = <<>>

NoRowBeforeCutoff ==
  \A i \in DOMAIN monthly.rows : ~BeforeCutoff(monthly.rows[i])

\* C6: with no row before the cutoff the baseline is NaN, no error is
\* raised, every adjusted rate is NaN and every row of the second sheet
\* shows 0 as its adjusted rate; and a row whose Total is 0 has a NaN raw
\* rate, shown as 0.
C6_NullShownAsZero ==
  /\ (pc \in Past("step8") /\ NoRowBeforeCutoff) =>
        baseline_intake = NaN
  /\ (pc \in Past("step9") /\ NoRowBeforeCutoff) =>
        \A i \in DOMAIN monthly.rows : monthly.rows[i]["AdjEuthRate"] = NaN
  /\ (pc \in Past("step11") /\ NoRowBeforeCutoff) =>
        /\ Len(wb.sheets[2].rows) = Len(monthly.rows)
        /\ \A i \in DOMAIN monthly.rows : wb.sheets[2].rows[i][4] = Rat(0, 1)
  /\ (pc = "done" /\ NoRowBeforeCutoff) =>
        \A i \in DOMAIN monthly.rows : file.sheets[2].rows[i][4] = Rat(0, 1)
  /\ err # "none" => monthly = None
  /\ pc \in Past("step7") =>
        \A i \in DOMAIN monthly.rows :
           monthly.rows[i]["Total"] = 0 => monthly.rows[i]["EuthRate"] = NaN
  /\ pc \in Past("step11") =>
        \A i \in DOMAIN monthly.rows :
           monthly.rows[i]["Total"] = 0 => wb.sheets[2].rows[i][3] = Rat(0, 1)

\* A finished run with no row before the cutoff, a row of Total 0 and a row
\* with a euthanasia.
C6_Witness ==
  /\ pc = "done"
  /\ NoRowBeforeCutoff
  /\ \E i \in DOMAIN monthly.rows : monthly.rows[i]["Total"] = 0
  /\ \E i \in DOMAIN monthly.rows : monthly.rows[i]["Euthanasia"] > 0

\* The dog records of the dataset with a parseable timestamp of the month
\* labelled label and an outcome type among outcomes.
InputCount(label, outcomes) ==
  Cardinality({i \in DOMAIN dataset :
                 /\ dataset[i].datetime # BadDatetime
                 /\ dataset[i].animal_type \in {"Dog", "DOG"}
                 /\ <<dataset[i].datetime[2], dataset[i].datetime[1] % 100>> = label
                 /\ dataset[i].outcome_type \in outcomes})

\* C7: in every row, Total is Adoption + Transfer + Euthanasia + Return to
\* Owner, which is the number of the month's dog records with one of these
\* four outcome types: nothing else is counted.
C7_TotalIsSumOfFour ==
  pc \in Past("step7") =>
    \A i \in DOMAIN monthly.rows :
       LET r == monthly.rows[i]
       IN  /\ r["Total"] = r["Adoption"] + r["Transfer"] + r["Euthanasia"]
                             + r["Return to Owner"]
           /\ r["Total"] = InputCount(r["MonthYear"], Range(Four))

\* A finished run with a row of all four outcome types whose month also has
\* a dog record of another outcome type.
C7_Witness ==
  /\ pc = "done"
  /\ \E i \in DOMAIN monthly.rows :
        /\ \A c \in Range(Four) : monthly.rows[i][c] > 0
        /\ InputCount(monthly.rows[i]["MonthYear"], {"Died"}) > 0

\* Every label of df comes from one month of one year.
LabelsUnambiguous ==
  \A i, j \in DOMAIN df.rows :
     df.rows[i].MonthYear = df.rows[j].MonthYear => df.rows[i].date = df.rows[j].date

\* The month of the records labelled label.
TrueDate(label) ==
  LET i == CHOOSE i \in DOMAIN df.rows : df.rows[i].MonthYear = label
  IN  df.rows[i].date

\* C8: the rows of the table are in the order of the months of the records
\* they count.
C8_ChronologicalOrder ==
  (pc \in Past("step6") /\ LabelsUnambiguous) =>
     \A i, j \in DOMAIN monthly.rows :
        i < j => DateKey(TrueDate(monthly.rows[i]["MonthYear"]))
                   < DateKey(TrueDate(monthly.rows[j]["MonthYear"]))

\* C10: a row with Total > 0 has a raw rate within [0, 100].
C10_RawRateInRange ==
  pc \in Past("step7") =>
    \A i \in DOMAIN monthly.rows :
       LET r == monthly.rows[i]
       IN  r["Total"] > 0 =>
             /\ IsRat(r["EuthRate"])
             /\ RatLeq(Rat(0, 1), r["EuthRate"])
             /\ RatLeq(r["EuthRate"], Rat(100, 1))

\* A finished run with a row at 100 and a row strictly inside the interval.
C10_Witness ==
  /\ pc = "done"
  /\ \E i \in DOMAIN monthly.rows : monthly.rows[i]["EuthRate"] = Rat(100, 1)
  /\ \E i \in DOMAIN monthly.rows :
        /\ monthly.rows[i]["Total"] > 0
        /\ monthly.rows[i]["EuthRate"] \notin {Rat(0, 1), Rat(100, 1)}

\* The second run went through.
TwinDone == twinMonthly # None /\ twinMonthly # KeyErrorRaised

\* The label of the month in which twin has one record more than dataset.
DiffLabel ==
  LET i == CHOOSE i \in DOMAIN twin : twin[i].id = Len(twin)
  IN  <<twin[i].datetime[2], twin[i].datetime[1] % 100>>

HasRow(t, label) == \E i \in DOMAIN t.rows : t.rows[i]["MonthYear"] = label

RowOf(t, label) ==
  t.rows[CHOOSE i \in DOMAIN t.rows : t.rows[i]["MonthYear"] = label]

\* Euthanasia / (mean of Total over the rows before the cutoff) * 100, the
\* mean of k totals of sum s being s/k.
ExpectedAdj(t, r) ==
  LET pre == {i \in DOMAIN t.rows :
                t.rows[i]["SortDate"][1] < 2020
                  \/ (t.rows[i]["SortDate"][1] = 2020 /\ t.rows[i]["SortDate"][2] < 3)}
      tot == [i \in DOMAIN t.rows |-> IF i \in pre THEN t.rows[i]["Total"] ELSE 0]
      s == SumSeq(tot)
  IN  IF pre = {} THEN NaN
      ELSE IF s = 0 THEN (IF r["Euthanasia"] = 0 THEN NaN ELSE Inf)
      ELSE Rat(100 * r["Euthanasia"] * Cardinality(pre), s)

\* Both runs went through and have a row for the month they differ in.
BothHaveDiffRow ==
  /\ pc = "done"
  /\ TwinDone
  /\ HasRow(monthly, DiffLabel)
  /\ HasRow(twinMonthly, DiffLabel)

AdjRateIsEuthOverBaseline(t) ==
  \A i \in DOMAIN t.rows : t.rows[i]["AdjEuthRate"] = ExpectedAdj(t, t.rows[i])

\* C9, as stated: every adjusted rate is Euthanasia / baseline * 100, and
\* two runs that differ only in the non-euthanasia counts of one month give
\* that month the same adjusted rate.
C9_IndependentOfOwnTotal ==
  /\ pc \in Past("step9") => AdjRateIsEuthOverBaseline(monthly)
  /\ TwinDone => AdjRateIsEuthOverBaseline(twinMonthly)
  /\ BothHaveDiffRow =>
       RowOf(monthly, DiffLabel)["AdjEuthRate"]
         = RowOf(twinMonthly, DiffLabel)["AdjEuthRate"]

\* C9, amended: the same, for a month whose row is not before the cutoff.
C9_IndependentFromCutoffOn ==
  /\ pc \in Past("step9") => AdjRateIsEuthOverBaseline(monthly)
  /\ TwinDone => AdjRateIsEuthOverBaseline(twinMonthly)
  /\ (BothHaveDiffRow /\ ~BeforeCutoff(RowOf(monthly, DiffLabel))) =>
       RowOf(monthly, DiffLabel)["AdjEuthRate"]
         = RowOf(twinMonthly, DiffLabel)["AdjEuthRate"]

\* Two finished runs that differ in a month from the cutoff on, which has a
\* euthanasia and a defined, non-zero adjusted rate, and whose totals differ.
C9_Witness ==
  /\ BothHaveDiffRow
  /\ ~BeforeCutoff(RowOf(monthly, DiffLabel))
  /\ RowOf(monthly, DiffLabel)["Total"] # RowOf(twinMonthly, DiffLabel)["Total"]
  /\ IsRat(RowOf(monthly, DiffLabel)["AdjEuthRate"])
  /\ RowOf(monthly, DiffLabel)["AdjEuthRate"].n > 0

====
